---- MODULE Spec2Model ----
(***************************************************************************)
(* Kids Club check-in / check-out lifecycle (extra_addons/kids_club).      *)
(* The tables kids.child.checkin, kids.child.subscription and account.move *)
(* are the state; every public operation of models/checkin.py and of the   *)
(* wizards that creates or advances a check-in record is one action.       *)
(* Time is counted in seconds (fields.Datetime.now), dates in days.        *)
(***************************************************************************)
EXTENDS Integers, Sequences, FiniteSets, TLC

\* ---------------------------------------------------------------- bounds
MaxCheckins == 2          \* rows of kids.child.checkin
MaxTicks == 2             \* clock advances
MaxVisitsUsed == 2        \* cap of the visits_used counter
MaxInvoices == 2          \* rows of account.move
Capacity == 1             \* kids.room.capacity of every room (> 0)
MaxStayMinutes == 100     \* longest stay the billing computation is applied to
MaxPackageVisits == 2     \* largest number_of_visits of a package

Children == {1, 2}
Rooms == {1}
SubIds == {1, 2}
PackageIds == {1, 2, 3}
BillingSubIds == {1, 2, 3}
Codes == {<<1, 2, 3, 4, 5, 6>>, <<0, 0, 0, 0, 0, 7>>}
SessionCodes == {<<1, 2, 3, 4, 5, 6>>}
TickSteps == {300, 5400, 86400}

\* ---------------------------------------------------- program constants
OtpValidSeconds == 300    \* timedelta(minutes=5)
SecondsPerMinute == 60    \* delta.total_seconds() / 60
SecondsPerDay == 86400    \* fields.Date.today() of fields.Datetime.now()

NoRoom == 0               \* room_id not set
NoSub == 0                \* no subscription found
NoInvoice == 0            \* extra_invoice_id not set
Unset == -1               \* a Datetime field that is False
NoCode == <<>>            \* an OTP field that is False

\* subscription.package rows (configuration data)
Package ==
  [p \in PackageIds |->
     IF p = 1
       THEN [daily_free_minutes |-> 60, margin_minutes |-> 10,
             extra_time_charge_per_minute |-> 5, number_of_visits |-> 1,
             validity_days |-> 1]
     ELSE IF p = 2
       THEN [daily_free_minutes |-> 30, margin_minutes |-> 20,
             extra_time_charge_per_minute |-> 8, number_of_visits |-> 1,
             validity_days |-> 2]
       ELSE [daily_free_minutes |-> 0, margin_minutes |-> 0,
             extra_time_charge_per_minute |-> 0, number_of_visits |-> 2,
             validity_days |-> 1]]

\* kids.room.capacity of each room (configuration data)
RoomCapacity == [r \in Rooms |-> Capacity]

\* kids.child.subscription.package_ids of each subscription
SubPackages(s) == IF s = 1 THEN {1} ELSE IF s = 2 THEN {1, 2} ELSE {3}

\* kids.child.subscription.child_id of each subscription
SubChild(s) == s

VARIABLES
  checkins,   \* kids.child.checkin: sequence of records, id = index
  subs,       \* kids.child.subscription: SubIds -> record
  invoices,   \* account.move rows created for extra charges
  now,        \* fields.Datetime.now(), in seconds
  ticks       \* number of clock advances so far

vars == <<checkins, subs, invoices, now, ticks>>

\* ---------------------------------------------------------------- helpers
SetMax(S) == CHOOSE x \in S : \A y \in S : y <= x
SetMin(S) == CHOOSE x \in S : \A y \in S : x <= y

\* sum(package_ids.mapped('number_of_visits'))
RECURSIVE SumVisits(_)
SumVisits(S) ==
  IF S = {} THEN 0
  ELSE LET x == CHOOSE y \in S : TRUE
       IN Package[x].number_of_visits + SumVisits(S \ {x})

\* Python int(): truncation toward zero of n / d, d > 0
TruncDiv(n, d) == IF n >= 0 THEN n \div d ELSE -((-n) \div d)

today == now \div SecondsPerDay

Ids == 1..Len(checkins)

\* ------------------------------------------------- subscription fields
total_visits_allowed(s) == SumVisits(SubPackages(s))

\* mutant of remaining_visits: the difference is not clamped at 0
remaining_visits_unclamped(s) ==
  total_visits_allowed(s) - subs[s].visits_used

remaining_visits(s) ==
  LET d == total_visits_allowed(s) - subs[s].visits_used
  IN IF d > 0 THEN d ELSE 0

validity_days(s) == SetMax({Package[p].validity_days : p \in SubPackages(s)})

compute_end_date(s, start) ==
  IF validity_days(s) > 0 THEN start + validity_days(s) - 1 ELSE start

\* the stored field is_active, as computed when state or the dates are written
compute_is_active(state, start, end) ==
  IF state = "paid" THEN start <= today /\ today <= end ELSE FALSE

\* ------------------------------------------------------ billing fields
compute_duration(checkin_time, checkout_time) ==
  IF checkin_time # Unset /\ checkout_time # Unset
    THEN TruncDiv(checkout_time - checkin_time, SecondsPerMinute)
  ELSE IF checkin_time # Unset
    THEN TruncDiv(now - checkin_time, SecondsPerMinute)
  ELSE 0

\* mutant of total_free_time: the allowance of the most generous package
total_free_time_same_package(s) ==
  SetMax({Package[p].daily_free_minutes + Package[p].margin_minutes :
            p \in SubPackages(s)})

total_free_time(s) ==
  SetMax({Package[p].daily_free_minutes : p \in SubPackages(s)})
    + SetMax({Package[p].margin_minutes : p \in SubPackages(s)})

\* mutant of compute_free_minutes_used: the whole stay counts as free time
compute_free_minutes_used_uncapped(s, duration) ==
  IF s = NoSub \/ duration <= 0 THEN 0 ELSE duration

compute_free_minutes_used(s, duration) ==
  IF s = NoSub \/ duration <= 0 THEN 0
  ELSE IF duration <= total_free_time(s) THEN duration
  ELSE total_free_time(s)

compute_extra_minutes(s, duration) ==
  IF s = NoSub \/ duration <= 0 THEN 0
  ELSE IF duration <= total_free_time(s) THEN 0
  ELSE duration - total_free_time(s)

per_minute_rate(s) ==
  SetMax({Package[p].extra_time_charge_per_minute : p \in SubPackages(s)})

\* mutant of compute_extra_charges: a flat fee of one minute's rate
compute_extra_charges_flat(s, extra) ==
  IF extra <= 0 \/ s = NoSub THEN 0
  ELSE IF per_minute_rate(s) > 0 THEN per_minute_rate(s)
  ELSE 0

compute_extra_charges(s, extra) ==
  IF extra <= 0 \/ s = NoSub THEN 0
  ELSE IF per_minute_rate(s) > 0 THEN extra * per_minute_rate(s)
  ELSE 0

\* the stored computed fields of a record after checkin_time / checkout_time
\* were written
Recompute(rec) ==
  LET d == compute_duration(rec.checkin_time, rec.checkout_time)
      x == compute_extra_minutes(rec.subscription_id, d)
  IN [rec EXCEPT !.duration_minutes = d,
                 !.free_minutes_used = compute_free_minutes_used(rec.subscription_id, d),
                 !.extra_minutes = x,
                 !.extra_charges = compute_extra_charges(rec.subscription_id, x)]

\* ---------------------------------------------------------------- queries
\* search_count([('room_id', '=', room), ('state', '=', 'checked_in')]),
\* optionally without record `exclude`
current_checkins(room, exclude) ==
  Cardinality({i \in Ids : /\ checkins[i].room_id = room
                           /\ checkins[i].state = "checked_in"
                           /\ i # exclude})

\* mutant of room_full: the capacity comparison is strict
room_full_strict(room, exclude) == current_checkins(room, exclude) > RoomCapacity[room]

\* ChildCheckin._validate_room_capacity: TRUE when it raises
room_full(room, exclude) == current_checkins(room, exclude) >= RoomCapacity[room]

\* Child.is_checked_in (computed on read)
is_checked_in(child) ==
  \E i \in Ids : /\ checkins[i].child_id = child
                 /\ checkins[i].checkout_time = Unset
                 /\ checkins[i].state \in {"checked_in", "pending_checkout_otp"}

\* the records that can come first in a subscription recordset: _order is
\* 'start_date desc' and names no further key, so the order among records of
\* equal start_date is left to the database
FirstSubs(S) ==
  {s \in S : \A u \in S : subs[u].start_date <= subs[s].start_date}

\* the subscriptions validate_active_subscription keeps
active_subscription(child) ==
  {s \in SubIds : /\ subs[s].child_id = child
                  /\ subs[s].state \in {"active", "paid"}
                  /\ subs[s].is_active
                  /\ remaining_visits(s) > 0}

\* ChildCheckin.validate_active_subscription
validate_active_subscription(child) ==
  IF active_subscription(child) = {}
    THEN [valid |-> FALSE, message |-> "NoActiveEntitlement"]
  ELSE IF is_checked_in(child)
    THEN [valid |-> FALSE, message |-> "AlreadyCheckedIn"]
  ELSE [valid |-> TRUE, message |-> "ok"]

\* the values validation['subscription'] (active_subscription[0]) can take
validated_subscriptions(child) == FirstSubs(active_subscription(child))

\* a new kids.child.checkin row with the field defaults
NewCheckin(child, sub, room, state) ==
  Recompute([child_id |-> child, room_id |-> room, subscription_id |-> sub,
             checkin_time |-> now, checkout_time |-> Unset,
             duration_minutes |-> 0,
             otp_code |-> NoCode, otp_verified |-> FALSE, otp_sent_time |-> Unset,
             entered_otp |-> NoCode,
             checkout_otp_code |-> NoCode, checkout_otp_verified |-> FALSE,
             checkout_otp_sent_time |-> Unset, entered_checkout_otp |-> NoCode,
             free_minutes_used |-> 0, extra_minutes |-> 0, extra_charges |-> 0,
             payment_confirmed |-> FALSE, payment_confirmation_time |-> Unset,
             state |-> state,
             extra_invoice_id |-> NoInvoice])

\* ------------------------------------------------------------------- Init
Init ==
  /\ now = 0
  /\ ticks = 0
  /\ checkins = << >>
  /\ subs = [s \in SubIds |->
               [child_id |-> SubChild(s), state |-> "paid",
                start_date |-> 0, end_date |-> compute_end_date(s, 0),
                is_active |-> compute_is_active("paid", 0, compute_end_date(s, 0)),
                visits_used |-> 0, pos_order |-> "paid"]]
  /\ invoices = << >>

\* ------------------------------------------------ subscription operations
\* the state _activate_paid_subscriptions leaves a subscription in
Activated(sub) ==
  IF sub.state = "paid" /\ sub.start_date <= today
    THEN [sub EXCEPT !.state = "active",
                     !.is_active = compute_is_active("active", sub.start_date, sub.end_date)]
  ELSE sub

\* mutant of Expired: confirmed subscriptions past their end date expire too
Expired_confirmed_too(sub) ==
  IF sub.state \in {"active", "confirmed"} /\ sub.end_date < today
    THEN [sub EXCEPT !.state = "expired",
                     !.is_active = compute_is_active("expired", sub.start_date, sub.end_date)]
  ELSE sub

\* the state the expiry write leaves a subscription in
Expired(sub) ==
  IF sub.state = "active" /\ sub.end_date < today
    THEN [sub EXCEPT !.state = "expired",
                     !.is_active = compute_is_active("expired", sub.start_date, sub.end_date)]
  ELSE sub

\* mutant of CronUpdateSubscriptionStatus: the expiry runs before the
\* activation
CronUpdateSubscriptionStatus_expire_first ==
  /\ subs' = [s \in SubIds |-> Activated(Expired(subs[s]))]
  /\ UNCHANGED <<checkins, invoices, now, ticks>>

\* ChildSubscription._cron_update_subscription_status
CronUpdateSubscriptionStatus ==
  /\ subs' = [s \in SubIds |-> Expired(Activated(subs[s]))]
  /\ UNCHANGED <<checkins, invoices, now, ticks>>

\* the subscription after ChildSubscription.action_confirm: state confirmed
\* and a POS order, created in draft unless the subscription has one already
confirmed_subscription(sub) ==
  [sub EXCEPT !.state = "confirmed",
              !.is_active = compute_is_active("confirmed", sub.start_date, sub.end_date),
              !.pos_order = IF @ = "none" THEN "draft" ELSE @]

\* ChildSubscription.action_confirm
ActionConfirm(s) ==
  /\ subs' = [subs EXCEPT ![s] = confirmed_subscription(subs[s])]
  /\ UNCHANGED <<checkins, invoices, now, ticks>>

\* ChildSubscription.action_cancel
ActionCancel(s) ==
  /\ subs' = [subs EXCEPT ![s] =
                [subs[s] EXCEPT !.state = "cancelled",
                                !.is_active = compute_is_active("cancelled",
                                                subs[s].start_date, subs[s].end_date)]]
  /\ UNCHANGED <<checkins, invoices, now, ticks>>

\* the subscription after ChildSubscription._compute_payment_status
compute_payment_status(sub) ==
  IF sub.pos_order = "paid" /\ sub.state = "confirmed"
    THEN [sub EXCEPT !.state = "paid",
                     !.is_active = compute_is_active("paid", sub.start_date, sub.end_date)]
  ELSE sub

\* the POS order of a subscription is paid at the till; the stored field
\* is_fully_paid depends on pos_order_id.state and is recomputed
PosOrderPaid(s) ==
  /\ subs[s].pos_order = "draft"
  /\ subs' = [subs EXCEPT ![s] = compute_payment_status([subs[s] EXCEPT !.pos_order = "paid"])]
  /\ UNCHANGED <<checkins, invoices, now, ticks>>

\* ChildSubscription._check_payment_status_cron
CheckPaymentStatusCron ==
  /\ subs' = [s \in SubIds |->
                IF subs[s].state = "confirmed" /\ subs[s].pos_order # "none"
                  THEN compute_payment_status(subs[s])
                ELSE subs[s]]
  /\ UNCHANGED <<checkins, invoices, now, ticks>>

\* the clock moves on
Tick(d) ==
  /\ ticks < MaxTicks
  /\ now' = now + d
  /\ ticks' = ticks + 1
  /\ UNCHANGED <<checkins, subs, invoices>>

\* ---------------------------------------------------- check-in operations
\* what ChildCheckin.create_checkin_request raises, or "ok"
create_checkin_request_error(child, room) ==
  IF ~validate_active_subscription(child).valid
    THEN validate_active_subscription(child).message
  ELSE IF room # NoRoom /\ room_full(room, 0) THEN "RoomFull"
  ELSE "ok"

\* mutant of CreateCheckinRequest: the session is created but no OTP is sent
CreateCheckinRequest_no_otp(child, room, otp) ==
  /\ Len(checkins) < MaxCheckins
  /\ IF create_checkin_request_error(child, room) # "ok"
       THEN UNCHANGED checkins
     ELSE \E s \in validated_subscriptions(child) :
            checkins' = Append(checkins, NewCheckin(child, s, room, "pending_otp"))
  /\ UNCHANGED <<subs, invoices, now, ticks>>

\* ChildCheckin.create_checkin_request (create + action_send_otp)
CreateCheckinRequest(child, room, otp) ==
  /\ Len(checkins) < MaxCheckins
  /\ IF create_checkin_request_error(child, room) # "ok"
       THEN UNCHANGED checkins
     ELSE \E s \in validated_subscriptions(child) :
            checkins' = Append(checkins,
              [NewCheckin(child, s, room, "pending_otp")
                 EXCEPT !.otp_code = otp, !.otp_sent_time = now])
  /\ UNCHANGED <<subs, invoices, now, ticks>>

\* mutant of reception_subscription: paid subscriptions are accepted as well
reception_subscription_paid_too(child) ==
  {s \in SubIds : /\ subs[s].child_id = child
                  /\ subs[s].state \in {"active", "paid"}
                  /\ remaining_visits(s) > 0}

\* the subscriptions ReceptionWizard._create_checkin searches
reception_subscription(child) ==
  {s \in SubIds : /\ subs[s].child_id = child
                  /\ subs[s].state = "active"
                  /\ remaining_visits(s) > 0}

\* whether ReceptionWizard._create_checkin returns True
reception_checkin_ok(child) ==
  /\ reception_subscription(child) # {}
  /\ ~\E i \in Ids : checkins[i].child_id = child /\ checkins[i].state = "checked_in"

\* ReceptionWizard._create_checkin (quick check-in, no OTP)
ReceptionCreateCheckin(child) ==
  /\ Len(checkins) < MaxCheckins
  /\ IF ~reception_checkin_ok(child)
       THEN UNCHANGED <<checkins, subs>>
     ELSE \E s \in FirstSubs(reception_subscription(child)) :
          /\ subs[s].visits_used < MaxVisitsUsed
          /\ checkins' = Append(checkins, NewCheckin(child, s, NoRoom, "checked_in"))
          /\ subs' = [subs EXCEPT ![s].visits_used = @ + 1]
  /\ UNCHANGED <<invoices, now, ticks>>

\* mutant of write_room_error: only sessions in pending_otp are validated
write_room_error_pending_only(id, room) ==
  IF /\ checkins[id].room_id # room
     /\ checkins[id].state = "pending_otp"
     /\ room_full(room, id)
    THEN "RoomFull"
  ELSE "ok"

\* what ChildCheckin.write({'room_id': room}) raises, or "ok"
write_room_error(id, room) ==
  IF /\ checkins[id].room_id # room
     /\ checkins[id].state \in {"pending_otp", "checked_in"}
     /\ room_full(room, id)
    THEN "RoomFull"
  ELSE "ok"

\* ChildCheckin.write({'room_id': room})
WriteRoom(id, room) ==
  /\ IF write_room_error(id, room) # "ok"
       THEN UNCHANGED checkins
     ELSE checkins' = [checkins EXCEPT ![id].room_id = room]
  /\ UNCHANGED <<subs, invoices, now, ticks>>

\* mutant of ResendOtp: the issue time of the first code is kept
ResendOtp_keep_time(id, otp) ==
  /\ checkins' = [checkins EXCEPT ![id].entered_otp = NoCode, ![id].otp_code = otp]
  /\ UNCHANGED <<subs, invoices, now, ticks>>

\* ChildCheckin.action_resend_otp / action_send_otp
ResendOtp(id, otp) ==
  /\ checkins' = [checkins EXCEPT ![id].entered_otp = NoCode,
                                  ![id].otp_code = otp, ![id].otp_sent_time = now]
  /\ UNCHANGED <<subs, invoices, now, ticks>>

\* mutant of verify_otp_error: the expiry is checked before the comparison
verify_otp_error_expiry_first(rec, entered_otp) ==
  IF rec.otp_code = NoCode THEN "NoOtpIssued"
  ELSE IF rec.otp_sent_time # Unset /\ now > rec.otp_sent_time + OtpValidSeconds
    THEN "OtpExpired"
  ELSE IF entered_otp # rec.otp_code THEN "OtpMismatch"
  ELSE "ok"

\* mutant of verify_otp_error: a code expires at issue time + 5 minutes sharp
verify_otp_error_closed(rec, entered_otp) ==
  IF rec.otp_code = NoCode THEN "NoOtpIssued"
  ELSE IF entered_otp # rec.otp_code THEN "OtpMismatch"
  ELSE IF rec.otp_sent_time # Unset /\ now >= rec.otp_sent_time + OtpValidSeconds
    THEN "OtpExpired"
  ELSE "ok"

\* what ChildCheckin.action_verify_otp raises, or "ok"
verify_otp_error(rec, entered_otp) ==
  IF rec.otp_code = NoCode THEN "NoOtpIssued"
  ELSE IF entered_otp # rec.otp_code THEN "OtpMismatch"
  ELSE IF rec.otp_sent_time # Unset /\ now > rec.otp_sent_time + OtpValidSeconds
    THEN "OtpExpired"
  ELSE "ok"

\* mutant of verify_otp_write: the check-in time of the request is kept
verify_otp_write_keep_time(rec) ==
  Recompute([rec EXCEPT !.otp_verified = TRUE, !.state = "checked_in"])

\* the record after the write of ChildCheckin.action_verify_otp
verify_otp_write(rec) ==
  Recompute([rec EXCEPT !.otp_verified = TRUE, !.state = "checked_in",
                        !.checkin_time = now])

\* mutant of VerifyOtp: an expired code is refused after otp_verified was written
VerifyOtp_partial(id, entered_otp) ==
  /\ IF verify_otp_error(checkins[id], entered_otp) = "OtpExpired"
       THEN /\ checkins' = [checkins EXCEPT ![id].otp_verified = TRUE]
            /\ UNCHANGED subs
     ELSE IF verify_otp_error(checkins[id], entered_otp) # "ok"
       THEN UNCHANGED <<checkins, subs>>
     ELSE /\ subs[checkins[id].subscription_id].visits_used < MaxVisitsUsed
          /\ checkins' = [checkins EXCEPT ![id] = verify_otp_write(@)]
          /\ subs' = [subs EXCEPT ![checkins[id].subscription_id].visits_used = @ + 1]
  /\ UNCHANGED <<invoices, now, ticks>>

\* ChildCheckin.action_verify_otp
VerifyOtp(id, entered_otp) ==
  /\ IF verify_otp_error(checkins[id], entered_otp) # "ok"
       THEN UNCHANGED <<checkins, subs>>
     ELSE /\ subs[checkins[id].subscription_id].visits_used < MaxVisitsUsed
          /\ checkins' = [checkins EXCEPT ![id] = verify_otp_write(@)]
          /\ subs' = [subs EXCEPT ![checkins[id].subscription_id].visits_used = @ + 1]
  /\ UNCHANGED <<invoices, now, ticks>>

\* --------------------------------------------------- check-out operations
\* mutant of action_checkout_error: only a pending session is refused
action_checkout_error_pending_only(rec) ==
  IF rec.state = "pending_otp" THEN "NotCheckedIn" ELSE "ok"

\* what ChildCheckin.action_checkout / action_dashboard_checkout raises, or "ok"
action_checkout_error(rec) ==
  IF rec.state # "checked_in" THEN "NotCheckedIn" ELSE "ok"

\* ChildCheckin.action_checkout / action_dashboard_checkout: returns the
\* window action that opens the checkout wizard, writes nothing
ActionCheckout(id) ==
  /\ action_checkout_error(checkins[id]) \in {"ok", "NotCheckedIn"}
  /\ UNCHANGED vars

\* CheckoutWizard.action_send_checkout_otp: checks the state and calls
\* checkin_id.action_checkout(), which writes nothing on the session; only
\* the fields of the transient wizard are written
CheckoutWizardSendCheckoutOtp(id) ==
  /\ action_checkout_error(checkins[id]) \in {"ok", "NotCheckedIn"}
  /\ UNCHANGED vars

\* mutant of send_checkout_otp: the issue time of the earlier code is kept
send_checkout_otp_keep_time(rec, otp) ==
  [rec EXCEPT !.checkout_otp_code = otp,
              !.checkout_otp_sent_time = IF @ = Unset THEN now ELSE @]

\* the record after ChildCheckin.action_send_checkout_otp
send_checkout_otp(rec, otp) ==
  [rec EXCEPT !.checkout_otp_code = otp, !.checkout_otp_sent_time = now]

\* CheckinWizard.action_send_checkout_otp
WizardSendCheckoutOtp(id, otp) ==
  /\ IF action_checkout_error(checkins[id]) # "ok"
       THEN UNCHANGED checkins
     ELSE checkins' = [checkins EXCEPT ![id] = send_checkout_otp(@, otp)]
  /\ UNCHANGED <<subs, invoices, now, ticks>>

\* ChildCheckin.action_resend_checkout_otp
ResendCheckoutOtp(id, otp) ==
  /\ checkins' = [checkins EXCEPT ![id] =
       send_checkout_otp([@ EXCEPT !.entered_checkout_otp = NoCode], otp)]
  /\ UNCHANGED <<subs, invoices, now, ticks>>

\* mutant of confirm_payment_error: a checked_in session may confirm too
confirm_payment_error_checked_in(rec) ==
  IF rec.state \notin {"pending_payment", "checked_in"}
    THEN "PaymentNotRequired" ELSE "ok"

\* what ChildCheckin.action_confirm_payment raises, or "ok"
confirm_payment_error(rec) ==
  IF rec.state # "pending_payment" THEN "PaymentNotRequired" ELSE "ok"

\* ChildCheckin.action_confirm_payment
ConfirmPayment(id, otp) ==
  /\ IF confirm_payment_error(checkins[id]) # "ok"
       THEN UNCHANGED checkins
     ELSE checkins' = [checkins EXCEPT ![id] =
            send_checkout_otp([@ EXCEPT !.payment_confirmed = TRUE,
                                        !.payment_confirmation_time = now], otp)]
  /\ UNCHANGED <<subs, invoices, now, ticks>>

\* mutant of verify_checkout_otp_error: the check-in code is accepted as well
verify_checkout_otp_error_either_code(rec, entered_otp) ==
  IF rec.checkout_otp_code = NoCode THEN "NoOtpIssued"
  ELSE IF entered_otp # rec.checkout_otp_code /\ entered_otp # rec.otp_code
    THEN "OtpMismatch"
  ELSE IF /\ rec.checkout_otp_sent_time # Unset
          /\ now > rec.checkout_otp_sent_time + OtpValidSeconds THEN "OtpExpired"
  ELSE "ok"

\* what ChildCheckin.action_verify_checkout_otp raises, or "ok"
verify_checkout_otp_error(rec, entered_otp) ==
  IF rec.checkout_otp_code = NoCode THEN "NoOtpIssued"
  ELSE IF entered_otp # rec.checkout_otp_code THEN "OtpMismatch"
  ELSE IF /\ rec.checkout_otp_sent_time # Unset
          /\ now > rec.checkout_otp_sent_time + OtpValidSeconds
    THEN "OtpExpired"
  ELSE "ok"

\* the record after the write of ChildCheckin.action_verify_checkout_otp
verify_checkout_otp_write(rec) ==
  Recompute([rec EXCEPT !.checkout_otp_verified = TRUE,
                        !.checkout_time = now, !.state = "checked_out"])

\* mutant of invoice_due: an invoice is created for every checkout
invoice_due_always(rec) == rec.extra_charges >= 0

\* whether action_verify_checkout_otp goes on to create an invoice
invoice_due(rec) == rec.extra_charges > 0

\* ChildCheckin.action_verify_checkout_otp (+ _create_extra_charges_invoice)
VerifyCheckoutOtp(id, entered_otp) ==
  LET out == verify_checkout_otp_write(checkins[id]) IN
  /\ IF verify_checkout_otp_error(checkins[id], entered_otp) # "ok"
       THEN UNCHANGED <<checkins, invoices>>
     ELSE IF invoice_due(out)
       THEN /\ Len(invoices) < MaxInvoices
            /\ invoices' = Append(invoices,
                 [checkin_id |-> id, partner |-> out.child_id,
                  price_unit |-> out.extra_charges])
            /\ checkins' = [checkins EXCEPT ![id] =
                 [out EXCEPT !.extra_invoice_id = Len(invoices) + 1]]
     ELSE /\ checkins' = [checkins EXCEPT ![id] = out]
          /\ UNCHANGED invoices
  /\ UNCHANGED <<subs, now, ticks>>

\* ------------------------------------------------------------------- Next
\* the operations on existing check-in records; codes are issued from
\* `issued` and typed in from `entered`
RecordStep(issued, entered) ==
  \/ \E id \in Ids, r \in Rooms : WriteRoom(id, r)
  \/ \E id \in Ids, otp \in issued : ResendOtp(id, otp)
  \/ \E id \in Ids, otp \in entered : VerifyOtp(id, otp)
  \/ \E id \in Ids : ActionCheckout(id)
  \/ \E id \in Ids : CheckoutWizardSendCheckoutOtp(id)
  \/ \E id \in Ids, otp \in issued : WizardSendCheckoutOtp(id, otp)
  \/ \E id \in Ids, otp \in issued : ResendCheckoutOtp(id, otp)
  \/ \E id \in Ids, otp \in issued : ConfirmPayment(id, otp)
  \/ \E id \in Ids, otp \in entered : VerifyCheckoutOtp(id, otp)

\* one check-in record through its life, with the clock running
Next ==
  \/ CronUpdateSubscriptionStatus
  \/ \E d \in TickSteps : Tick(d)
  \/ \E c \in Children, r \in Rooms \cup {NoRoom}, otp \in SessionCodes :
       checkins = << >> /\ CreateCheckinRequest(c, r, otp)
  \/ \E c \in Children : checkins = << >> /\ ReceptionCreateCheckin(c)
  \/ RecordStep(SessionCodes, Codes)

Spec == Init /\ [][Next]_vars

\* up to MaxCheckins check-in records side by side, within one instant
NextSessions ==
  \/ CronUpdateSubscriptionStatus
  \/ \E c \in Children, r \in Rooms \cup {NoRoom}, otp \in SessionCodes :
       CreateCheckinRequest(c, r, otp)
  \/ \E c \in Children : ReceptionCreateCheckin(c)
  \/ RecordStep(SessionCodes, SessionCodes)

SpecSessions == Init /\ [][NextSessions]_vars

\* the subscriptions as the subscription wizard creates them: in draft,
\* without a POS order, starting today or tomorrow
InitSubscriptions ==
  /\ now = 0
  /\ ticks = 0
  /\ checkins = << >>
  /\ \E start \in [SubIds -> {0, 1}] :
       subs = [s \in SubIds |->
                 [child_id |-> SubChild(s), state |-> "draft",
                  start_date |-> start[s], end_date |-> compute_end_date(s, start[s]),
                  is_active |-> compute_is_active("draft", start[s],
                                                  compute_end_date(s, start[s])),
                  visits_used |-> 0, pos_order |-> "none"]]
  /\ invoices = << >>

\* the life of the subscriptions, with one check-in on them
NextSubscriptions ==
  \/ \E s \in SubIds : ActionConfirm(s)
  \/ \E s \in SubIds : ActionCancel(s)
  \/ \E s \in SubIds : PosOrderPaid(s)
  \/ CheckPaymentStatusCron
  \/ CronUpdateSubscriptionStatus
  \/ \E d \in TickSteps : Tick(d)
  \/ \E c \in Children, otp \in SessionCodes :
       checkins = << >> /\ CreateCheckinRequest(c, NoRoom, otp)
  \/ \E id \in Ids, otp \in SessionCodes : VerifyOtp(id, otp)

SpecSubscriptions == InitSubscriptions /\ [][NextSubscriptions]_vars

\* child 1 holds both subscriptions, each bought today or the day before
InitSelection ==
  /\ \E day \in {0, 1} : now = day * SecondsPerDay
  /\ ticks = 0
  /\ checkins = << >>
  /\ \E start \in [SubIds -> {0, 1}] :
       subs = [s \in SubIds |->
                 [child_id |-> 1, state |-> "paid",
                  start_date |-> start[s], end_date |-> compute_end_date(s, start[s]),
                  is_active |-> compute_is_active("paid", start[s],
                                                  compute_end_date(s, start[s])),
                  visits_used |-> 0, pos_order |-> "paid"]]
  /\ invoices = << >>

SpecSelection == InitSelection /\ [][NextSessions]_vars

\* a stored subscription that was cancelled (before or after its POS order
\* was created or paid) or that the sweep has expired
closed_subscription(s, start, state, pos) ==
  [child_id |-> SubChild(s), state |-> state,
   start_date |-> start, end_date |-> compute_end_date(s, start),
   is_active |-> compute_is_active(state, start, compute_end_date(s, start)),
   visits_used |-> 0, pos_order |-> pos]

\* every subscription has been cancelled or has expired
InitClosed ==
  /\ now = 2 * SecondsPerDay
  /\ ticks = 0
  /\ checkins = << >>
  /\ \E kind \in [SubIds -> {"cancelled_new", "cancelled_draft", "cancelled_paid",
                              "expired"}] :
       subs = [s \in SubIds |->
                 IF kind[s] = "expired"
                   THEN closed_subscription(s, 0, "expired", "paid")
                 ELSE closed_subscription(s, 2, "cancelled",
                        IF kind[s] = "cancelled_new" THEN "none"
                        ELSE IF kind[s] = "cancelled_draft" THEN "draft"
                        ELSE "paid")]
  /\ invoices = << >>

\* action_confirm, the payment-status updates and the sweeps
NextClosed ==
  \/ \E s \in SubIds : ActionConfirm(s)
  \/ \E s \in SubIds : PosOrderPaid(s)
  \/ CheckPaymentStatusCron
  \/ CronUpdateSubscriptionStatus
  \/ \E d \in TickSteps : Tick(d)

SpecClosed == InitClosed /\ [][NextClosed]_vars

\* the values of the state selection of kids.child.checkin
CheckinStates ==
  {"pending_otp", "checked_in", "pending_payment", "pending_checkout_otp",
   "checked_out", "cancelled"}

\* one stored check-in record of child 1 in any state of the selection: the
\* record the handlers of ChildCheckin are handed
InitRecord ==
  /\ now = 0
  /\ ticks = 0
  /\ \E st \in CheckinStates : checkins = <<NewCheckin(1, 1, 1, st)>>
  /\ subs = [s \in SubIds |->
               [child_id |-> SubChild(s), state |-> "paid",
                start_date |-> 0, end_date |-> compute_end_date(s, 0),
                is_active |-> compute_is_active("paid", 0, compute_end_date(s, 0)),
                visits_used |-> 0, pos_order |-> "paid"]]
  /\ invoices = << >>

\* the handlers of ChildCheckin on that record, with the clock running
NextRecord ==
  \/ \E d \in TickSteps : Tick(d)
  \/ RecordStep(SessionCodes, SessionCodes)

SpecRecord == InitRecord /\ [][NextRecord]_vars

\* one stored check-in record on any of the billing subscriptions, checked in
\* at time 0
InitBilling ==
  /\ now = 0
  /\ ticks = 0
  /\ \E s \in BillingSubIds : checkins = <<NewCheckin(1, s, 1, "checked_in")>>
  /\ subs = [s \in BillingSubIds |->
               [child_id |-> 1, state |-> "paid",
                start_date |-> 0, end_date |-> compute_end_date(s, 0),
                is_active |-> compute_is_active("paid", 0, compute_end_date(s, 0)),
                visits_used |-> 0, pos_order |-> "paid"]]
  /\ invoices = << >>

\* checkout_time is written on the record and the stored fields
\* duration_minutes, free_minutes_used, extra_minutes and extra_charges are
\* computed from it
WriteCheckoutTime(id, t) ==
  /\ checkins' = [checkins EXCEPT ![id] = Recompute([@ EXCEPT !.checkout_time = t])]
  /\ UNCHANGED <<subs, invoices, now, ticks>>

\* the stays the billing computation is applied to: whole minutes and
\* minutes with 59 seconds on top
StayTimes ==
  {m * SecondsPerMinute + e : m \in 0..MaxStayMinutes, e \in {0, 59}}

NextBilling == \E id \in Ids, t \in StayTimes : WriteCheckoutTime(id, t)

SpecBilling == InitBilling /\ [][NextBilling]_vars

\* the OTP handlers of ChildCheckin on one stored record, with both codes
\* issued and typed in freely
NextOtp ==
  \/ \E d \in TickSteps : Tick(d)
  \/ \E id \in Ids, otp \in Codes : ResendOtp(id, otp)
  \/ \E id \in Ids, otp \in Codes : VerifyOtp(id, otp)
  \/ \E id \in Ids, otp \in Codes : ResendCheckoutOtp(id, otp)
  \/ \E id \in Ids, otp \in Codes : VerifyCheckoutOtp(id, otp)

SpecOtp == InitRecord /\ [][NextOtp]_vars

\* the OTP field of the check-in form is filled in (write of entered_otp)
EnterOtp(id, code) ==
  /\ checkins' = [checkins EXCEPT ![id].entered_otp = code]
  /\ UNCHANGED <<subs, invoices, now, ticks>>

\* what ChildCheckin.verify_otp_action raises, or "ok"
verify_otp_action_error(rec) ==
  IF rec.entered_otp = NoCode THEN "NoOtpEntered"
  ELSE verify_otp_error(rec, rec.entered_otp)

\* ChildCheckin.verify_otp_action (the Verify OTP button of the form)
VerifyOtpAction(id) ==
  IF checkins[id].entered_otp = NoCode
    THEN UNCHANGED vars
  ELSE VerifyOtp(id, checkins[id].entered_otp)

\* the check-in form of one record: request, enter, resend and verify the
\* check-in OTP, with the clock running
NextForm ==
  \/ \E d \in TickSteps : Tick(d)
  \/ \E c \in Children, otp \in Codes :
       checkins = << >> /\ CreateCheckinRequest(c, NoRoom, otp)
  \/ \E id \in Ids, code \in Codes : EnterOtp(id, code)
  \/ \E id \in Ids, otp \in Codes : ResendOtp(id, otp)
  \/ \E id \in Ids : VerifyOtpAction(id)

SpecForm == Init /\ [][NextForm]_vars

\* ================================================================= claims
NonTerminal == {"pending_otp", "checked_in", "pending_payment", "pending_checkout_otp"}

\* the sessions of a child that are neither checked out nor cancelled
ActiveSessions(c) ==
  {i \in Ids : checkins[i].child_id = c /\ checkins[i].state \in NonTerminal}

\* the checked_in sessions that reference a room
Occupants(r) ==
  {i \in Ids : checkins[i].room_id = r /\ checkins[i].state = "checked_in"}

\* C1: every child has at most one session in a non-terminal state.
\* Stated as claimed; violated by two create_checkin_request calls for one child.
C1_AtMostOneActiveSession ==
  \A c \in Children : Cardinality(ActiveSessions(c)) <= 1

\* C2: create_checkin_request for a child that already has a non-terminal
\* session fails with AlreadyCheckedIn. Stated as claimed; violated for a child
\* whose session is in pending_otp.
C2_CreateRejectedWhenActive ==
  \A c \in Children, r \in Rooms \cup {NoRoom} :
    ActiveSessions(c) # {} => create_checkin_request_error(c, r) = "AlreadyCheckedIn"

\* C3: for every room the number of checked_in sessions that reference it is at
\* most its capacity. Stated as claimed, on the states where every child has at
\* most one active session (so that the violation does not rest on C1's);
\* violated by the pending sessions of two children in one room, both verified.
C3_RoomWithinCapacity ==
  (\A c \in Children : Cardinality(ActiveSessions(c)) <= 1)
    => \A r \in Rooms : Cardinality(Occupants(r)) <= RoomCapacity[r]

\* C4: creating a session with a room (the create step of a request that passed
\* the subscription validation) is rejected with RoomFull exactly when the
\* number of checked_in sessions of that room is >= its capacity; no session is
\* ever created in a room that is at capacity, and one is created as soon as
\* the room is below capacity again.
C4_RoomFullExactlyAtCapacity ==
  \A c \in Children, r \in Rooms :
    validate_active_subscription(c).valid =>
      /\ (create_checkin_request_error(c, r) = "RoomFull")
           <=> (Cardinality(Occupants(r)) >= RoomCapacity[r])
      /\ (create_checkin_request_error(c, r) = "ok")
           <=> (Cardinality(Occupants(r)) < RoomCapacity[r])

\* C4 witness: a room at capacity rejects the request of a child that passes
\* the subscription validation.
C4_Witness ==
  \E c \in Children, r \in Rooms :
    /\ validate_active_subscription(c).valid
    /\ Cardinality(Occupants(r)) >= RoomCapacity[r]
    /\ create_checkin_request_error(c, r) = "RoomFull"

\* the entitlement the claim describes: state active or paid, inside its
\* validity window, visits remaining
HasEntitlement(c) ==
  \E s \in SubIds :
    /\ subs[s].child_id = c
    /\ subs[s].state \in {"active", "paid"}
    /\ subs[s].start_date <= today /\ today <= subs[s].end_date
    /\ subs[s].visits_used < total_visits_allowed(s)

\* C5: request check-in finds an entitlement exactly when the child has a
\* subscription in state active or paid, within its window, with visits
\* remaining. Stated as claimed; violated by a subscription in state active.
C5_EntitlementFoundExactlyWhenValid ==
  \A c \in Children :
    (create_checkin_request_error(c, NoRoom) # "NoActiveEntitlement") <=> HasEntitlement(c)

\* the sessions of a subscription whose check-in completed
CompletedCheckins(s) ==
  {i \in Ids : /\ checkins[i].subscription_id = s
               /\ checkins[i].state \in {"checked_in", "pending_payment",
                                         "pending_checkout_otp", "checked_out"}}

\* C6: visits_used of a subscription counts each of its sessions exactly once,
\* when its check-in completes. Stated as claimed; violated by verifying the
\* check-in OTP of one session twice.
C6_VisitsCountedOncePerSession ==
  \A s \in SubIds : subs[s].visits_used = Cardinality(CompletedCheckins(s))

\* C7: at most one invoice is ever created for a session. Stated as claimed;
\* violated by verifying the checkout OTP of one session twice.
C7_AtMostOneInvoicePerSession ==
  \A id \in Ids :
    Cardinality({k \in 1..Len(invoices) : invoices[k].checkin_id = id}) <= 1

\* C8: no session is checked_out with an overage charge > 0 unless its payment
\* was confirmed. Stated as claimed; violated by every checkout with overage.
C8_NoUnpaidCheckout ==
  \A id \in Ids :
    (checkins[id].state = "checked_out" /\ checkins[id].extra_charges > 0)
      => checkins[id].payment_confirmed

\* the overage charge of a stay that began at checkin_time and is at moment t
OverageChargeAt(rec, t) ==
  compute_extra_charges(rec.subscription_id,
    compute_extra_minutes(rec.subscription_id,
      TruncDiv(t - rec.checkin_time, SecondsPerMinute)))

\* C9: a checked_in session whose overage charge is > 0 is issued no checkout
\* OTP before its payment is confirmed. Stated as claimed; violated by a
\* checkout OTP sent 90 minutes after check-in.
C9_NoCheckoutOtpBeforePayment ==
  \A id \in Ids :
    ( /\ checkins[id].state = "checked_in"
      /\ checkins[id].checkout_otp_code # NoCode
      /\ checkins[id].checkout_otp_sent_time >= checkins[id].checkin_time
      /\ OverageChargeAt(checkins[id], checkins[id].checkout_otp_sent_time) > 0 )
      => checkins[id].payment_confirmed

\* C10: checked_out is terminal: no step changes the state, the check-in time
\* or the checkout time of a session that is checked_out. Stated as claimed;
\* violated by verifying the check-in OTP of a checked-out session.
C10_CheckedOutIsTerminal ==
  [][\A id \in Ids :
       checkins[id].state = "checked_out" =>
         /\ checkins'[id].state = "checked_out"
         /\ checkins'[id].checkin_time = checkins[id].checkin_time
         /\ checkins'[id].checkout_time = checkins[id].checkout_time]_vars

\* the position of a state in the order pending_otp -> checked_in ->
\* pending_payment -> pending_checkout_otp -> checked_out
StateRank(s) ==
  CASE s = "pending_otp" -> 1
    [] s = "checked_in" -> 2
    [] s = "pending_payment" -> 3
    [] s = "pending_checkout_otp" -> 4
    [] OTHER -> 5

\* C11: sessions only move forward along pending_otp -> checked_in ->
\* pending_payment -> pending_checkout_otp -> checked_out, and no step takes a
\* session from pending_otp to checked_out (a checked_out session was checked_in
\* before). Stated as claimed; violated by a checkout OTP resent to and verified
\* on a session that is still pending_otp.
C11_ForwardOnlyThroughCheckedIn ==
  [][\A id \in Ids :
       /\ StateRank(checkins'[id].state) >= StateRank(checkins[id].state)
       /\ checkins[id].state = "pending_otp" => checkins'[id].state # "checked_out"]_vars

\* C12: a session is checked_in only if its check-in OTP was verified, and
\* checked_out only if its checkout OTP was verified. Stated as claimed;
\* violated by the reception quick check-in.
C12_StatesGatedByOtp ==
  \A id \in Ids :
    /\ checkins[id].state = "checked_in" => checkins[id].otp_verified
    /\ checkins[id].state = "checked_out" => checkins[id].checkout_otp_verified

\* the contract of an OTP verification: no code, then mismatch, then expiry
OtpContract(err, code, sent, entered) ==
  /\ code = NoCode => err = "NoOtpIssued"
  /\ (code # NoCode /\ entered # code) => err = "OtpMismatch"
  /\ (code # NoCode /\ entered = code /\ now > sent + OtpValidSeconds)
       => err = "OtpExpired"
  /\ err \in {"NoOtpIssued", "OtpMismatch", "OtpExpired", "ok"}

\* C13: verify check-in OTP fails with NoOtpIssued when the session holds no
\* code, with OtpMismatch when the entered code differs from the stored one,
\* with OtpExpired when the code matches but now > issue time + 5 minutes, in
\* that order; verify checkout OTP does the same on the checkout code.
C13_OtpErrorOrder ==
  \A id \in Ids, e \in Codes :
    /\ OtpContract(verify_otp_error(checkins[id], e), checkins[id].otp_code,
                   checkins[id].otp_sent_time, e)
    /\ OtpContract(verify_checkout_otp_error(checkins[id], e),
                   checkins[id].checkout_otp_code,
                   checkins[id].checkout_otp_sent_time, e)

\* C13 witness: a wrong code entered after the window has passed is reported
\* as a mismatch, for the check-in and for the checkout code.
C13_Witness ==
  \E id \in Ids, e \in Codes :
    /\ checkins[id].otp_code # NoCode /\ e # checkins[id].otp_code
    /\ now > checkins[id].otp_sent_time + OtpValidSeconds
    /\ verify_otp_error(checkins[id], e) = "OtpMismatch"
    /\ checkins[id].checkout_otp_code # NoCode /\ e # checkins[id].checkout_otp_code
    /\ now > checkins[id].checkout_otp_sent_time + OtpValidSeconds
    /\ verify_checkout_otp_error(checkins[id], e) = "OtpMismatch"

\* C14: for the check-in and the checkout OTP, a matching code is accepted
\* whenever now <= issue time + 5 minutes (5:00 sharp included) and refused
\* with OtpExpired whenever now > issue time + 5 minutes; the passing of time
\* and the scheduled job change no session.
C14_ExpiryAtVerificationOnly ==
  [][/\ \A id \in Ids :
          /\ checkins[id].otp_code # NoCode =>
               IF now <= checkins[id].otp_sent_time + OtpValidSeconds
                 THEN verify_otp_error(checkins[id], checkins[id].otp_code) = "ok"
               ELSE verify_otp_error(checkins[id], checkins[id].otp_code) = "OtpExpired"
          /\ checkins[id].checkout_otp_code # NoCode =>
               IF now <= checkins[id].checkout_otp_sent_time + OtpValidSeconds
                 THEN verify_checkout_otp_error(checkins[id],
                        checkins[id].checkout_otp_code) = "ok"
               ELSE verify_checkout_otp_error(checkins[id],
                      checkins[id].checkout_otp_code) = "OtpExpired"
     /\ (now' # now \/ CronUpdateSubscriptionStatus) => checkins' = checkins]_vars

\* C14 witness: a check-in verified exactly 5 minutes after its code was issued.
C14_Witness ==
  \E id \in Ids :
    /\ checkins[id].state = "checked_in" /\ checkins[id].otp_verified
    /\ checkins[id].otp_sent_time # Unset
    /\ checkins[id].checkin_time = checkins[id].otp_sent_time + OtpValidSeconds

\* C15: a successful check-in OTP verification moves the session to
\* checked_in, sets otp_verified, sets the check-in time to the moment of the
\* verification and increases visits_used of the session's subscription by
\* exactly 1 (no other subscription changes).
C15_VerifyOtpEffect ==
  [][\A id \in Ids, e \in Codes :
       (verify_otp_error(checkins[id], e) = "ok" /\ VerifyOtp(id, e)) =>
         /\ checkins'[id].state = "checked_in"
         /\ checkins'[id].otp_verified
         /\ checkins'[id].checkin_time = now
         /\ \A s \in SubIds :
              subs'[s].visits_used =
                IF s = checkins[id].subscription_id
                  THEN subs[s].visits_used + 1 ELSE subs[s].visits_used]_vars

\* C15 witness: a session verified after its request, with the visit counted.
C15_Witness ==
  \E id \in Ids :
    /\ checkins[id].state = "checked_in" /\ checkins[id].otp_verified
    /\ checkins[id].otp_sent_time # Unset
    /\ checkins[id].checkin_time > checkins[id].otp_sent_time
    /\ subs[checkins[id].subscription_id].visits_used = 1

\* C16: a check-in lifecycle operation that fails (request check-in, reception
\* check-in, verify check-in OTP, checkout request, confirm payment, verify
\* checkout OTP) leaves the sessions, the subscriptions and the invoices
\* exactly as they were.
C16_FailureChangesNothing ==
  [][( \/ \E c \in Children, r \in Rooms \cup {NoRoom}, otp \in Codes :
            /\ create_checkin_request_error(c, r) # "ok"
            /\ CreateCheckinRequest(c, r, otp)
       \/ \E c \in Children : ~reception_checkin_ok(c) /\ ReceptionCreateCheckin(c)
       \/ \E id \in Ids, e \in Codes :
            verify_otp_error(checkins[id], e) # "ok" /\ VerifyOtp(id, e)
       \/ \E id \in Ids :
            action_checkout_error(checkins[id]) # "ok" /\ ActionCheckout(id)
       \/ \E id \in Ids, otp \in Codes :
            action_checkout_error(checkins[id]) # "ok" /\ WizardSendCheckoutOtp(id, otp)
       \/ \E id \in Ids, otp \in Codes :
            confirm_payment_error(checkins[id]) # "ok" /\ ConfirmPayment(id, otp)
       \/ \E id \in Ids, e \in Codes :
            /\ verify_checkout_otp_error(checkins[id], e) # "ok"
            /\ VerifyCheckoutOtp(id, e) )
       => UNCHANGED <<checkins, subs, invoices>>]_vars

\* C16 witness: a pending session whose code has expired, so that its
\* verification fails, and which is still as the request left it.
C16_Witness ==
  \E id \in Ids :
    /\ checkins[id].state = "pending_otp" /\ ~checkins[id].otp_verified
    /\ verify_otp_error(checkins[id], checkins[id].otp_code) = "OtpExpired"
    /\ subs[checkins[id].subscription_id].visits_used = 0

\* C17: a successful verify checkout OTP stamps checkout_time with the moment
\* of the verification, sets the state to checked_out, and creates one invoice
\* for the child's parent, of the session's overage charge, if and only if
\* that charge is > 0.
C17_VerifyCheckoutOtpEffect ==
  [][\A id \in Ids, e \in Codes :
       (verify_checkout_otp_error(checkins[id], e) = "ok" /\ VerifyCheckoutOtp(id, e)) =>
         /\ checkins'[id].checkout_time = now
         /\ checkins'[id].state = "checked_out"
         /\ checkins'[id].checkout_otp_verified
         /\ IF checkins'[id].extra_charges > 0
              THEN invoices' = Append(invoices,
                     [checkin_id |-> id, partner |-> checkins[id].child_id,
                      price_unit |-> checkins'[id].extra_charges])
            ELSE invoices' = invoices]_vars

\* C17 witness: a session checked out after 90 minutes, with its invoice of 100.
C17_Witness ==
  \E id \in Ids, k \in 1..Len(invoices) :
    /\ checkins[id].state = "checked_out"
    /\ checkins[id].checkout_time > checkins[id].checkin_time
    /\ checkins[id].extra_charges > 0
    /\ invoices[k].checkin_id = id
    /\ invoices[k].price_unit = checkins[id].extra_charges
    /\ checkins[id].extra_invoice_id = k

C20_ResendOtpEffect ==
  [][/\ \A id \in Ids, otp \in Codes :
          ResendOtp(id, otp) =>
            /\ checkins'[id].entered_otp = NoCode
            /\ checkins'[id].otp_code = otp
            /\ checkins'[id].otp_sent_time = now
            /\ checkins'[id].state = checkins[id].state
            /\ checkins'[id].checkin_time = checkins[id].checkin_time
            /\ subs' = subs
            /\ \A e \in Codes :
                 (verify_otp_error(checkins[id], e))' =
                   IF e = otp THEN "ok" ELSE "OtpMismatch"
     /\ \A id \in Ids :
          checkins[id].otp_code # NoCode =>
            ( verify_otp_error(checkins[id], checkins[id].otp_code) = "OtpExpired"
                <=> now > checkins[id].otp_sent_time + OtpValidSeconds )]_vars

\* C20 witness: a pending session whose code was issued again after the
\* window of the request had passed; the entered code is cleared and the new
\* code is accepted.
C20_Witness ==
  \E id \in Ids :
    /\ checkins[id].state = "pending_otp"
    /\ checkins[id].otp_sent_time > checkins[id].checkin_time + OtpValidSeconds
    /\ checkins[id].entered_otp = NoCode
    /\ verify_otp_error(checkins[id], checkins[id].otp_code) = "ok"
    /\ subs[checkins[id].subscription_id].visits_used = 0

\* C21: a pending session is not stuck on an expired or mistyped code: a
\* resend issues a code that verification accepts, and a matching code verified
\* within 5 minutes of its issue moves the session to checked_in; likewise a
\* checked_in session reaches checked_out with a resent checkout code. (The
\* counters of the model must leave room for the step.)
C21_ResendUnblocks ==
  \A id \in Ids :
    /\ ( /\ checkins[id].state = "pending_otp"
         /\ subs[checkins[id].subscription_id].visits_used < MaxVisitsUsed ) =>
         /\ \A otp \in SessionCodes :
              ENABLED ( /\ ResendOtp(id, otp)
                        /\ (verify_otp_error(checkins[id], otp) = "ok")' )
         /\ ( /\ checkins[id].otp_code # NoCode
              /\ now <= checkins[id].otp_sent_time + OtpValidSeconds ) =>
              ENABLED ( /\ VerifyOtp(id, checkins[id].otp_code)
                        /\ checkins'[id].state = "checked_in" )
    /\ ( /\ checkins[id].state = "checked_in"
         /\ Len(invoices) < MaxInvoices ) =>
         /\ \A otp \in SessionCodes :
              ENABLED ( /\ ResendCheckoutOtp(id, otp)
                        /\ (verify_checkout_otp_error(checkins[id], otp) = "ok")' )
         /\ ( /\ checkins[id].checkout_otp_code # NoCode
              /\ now <= checkins[id].checkout_otp_sent_time + OtpValidSeconds ) =>
              ENABLED ( /\ VerifyCheckoutOtp(id, checkins[id].checkout_otp_code)
                        /\ checkins'[id].state = "checked_out" )

\* C21 witness: a checked_in session whose checkout code has expired.
C21_Witness ==
  \E id \in Ids :
    /\ checkins[id].state = "checked_in" /\ checkins[id].otp_verified
    /\ Len(invoices) < MaxInvoices
    /\ verify_checkout_otp_error(checkins[id], checkins[id].checkout_otp_code)
         = "OtpExpired"

\* C22: a checkout request (action_checkout, action_dashboard_checkout) fails
\* with NotCheckedIn unless the session is checked_in, and a failed request
\* changes nothing.
C22_CheckoutRequestGuard ==
  [][\A id \in Ids :
       /\ (action_checkout_error(checkins[id]) = "NotCheckedIn")
            <=> (checkins[id].state # "checked_in")
       /\ (action_checkout_error(checkins[id]) = "ok")
            <=> (checkins[id].state = "checked_in")
       /\ (action_checkout_error(checkins[id]) # "ok" /\ ActionCheckout(id))
            => UNCHANGED vars]_vars

\* C22 witness: a checked-out session, whose checkout request is refused.
C22_Witness ==
  \E id \in Ids :
    /\ checkins[id].state = "checked_out"
    /\ action_checkout_error(checkins[id]) = "NotCheckedIn"

\* C23: confirm payment fails with PaymentNotRequired unless the session is in
\* pending_payment; when it fails, payment_confirmed, its timestamp and the
\* checkout OTP fields are unchanged.
C23_ConfirmPaymentGuard ==
  [][\A id \in Ids :
       /\ (confirm_payment_error(checkins[id]) = "PaymentNotRequired")
            <=> (checkins[id].state # "pending_payment")
       /\ \A otp \in Codes :
            (confirm_payment_error(checkins[id]) # "ok" /\ ConfirmPayment(id, otp)) =>
              /\ checkins'[id].payment_confirmed = checkins[id].payment_confirmed
              /\ checkins'[id].payment_confirmation_time
                   = checkins[id].payment_confirmation_time
              /\ checkins'[id].checkout_otp_code = checkins[id].checkout_otp_code
              /\ checkins'[id].checkout_otp_sent_time
                   = checkins[id].checkout_otp_sent_time]_vars

C23_Witness ==
  \E id \in Ids :
    /\ checkins[id].state = "checked_in"
    /\ OverageChargeAt(checkins[id], now) > 0
    /\ ~checkins[id].payment_confirmed
    /\ confirm_payment_error(checkins[id]) = "PaymentNotRequired"

\* C25: whenever both are set, checkout_time > checkin_time, for every session
\* in every reachable state and any order of check-in verification and
\* checkout verification calls. Stated as claimed; violated by a checkout
\* verified in the second of the check-in, and by a check-in verification
\* that follows the checkout.
C25_CheckoutAfterCheckin ==
  \A id \in Ids :
    ( /\ checkins[id].checkin_time # Unset
      /\ checkins[id].checkout_time # Unset ) =>
      checkins[id].checkout_time > checkins[id].checkin_time

Min2(a, b) == IF a <= b THEN a ELSE b
Max2(a, b) == IF a >= b THEN a ELSE b

\* C26: for every duration d >= 0 and allowance a = daily_free_minutes +
\* margin_minutes >= 0, the billing computation yields free_used = min(d, a)
\* and overage = max(0, d - a), so that free_used + overage = d and both are
\* non-negative.
C26_FreeAndOverageSplit ==
  \A id \in Ids :
    LET rec == checkins[id]
        d == rec.duration_minutes
        a == total_free_time(rec.subscription_id)
    IN /\ rec.checkout_time # Unset =>
            d = (rec.checkout_time - rec.checkin_time) \div SecondsPerMinute
       /\ (d >= 0 /\ a >= 0) =>
            /\ rec.free_minutes_used = Min2(d, a)
            /\ rec.extra_minutes = Max2(0, d - a)
            /\ rec.free_minutes_used + rec.extra_minutes = d
            /\ rec.free_minutes_used >= 0
            /\ rec.extra_minutes >= 0

\* C26 witness: a stay longer than a positive allowance, split into both parts.
C26_Witness ==
  \E id \in Ids :
    /\ checkins[id].checkout_time # Unset
    /\ total_free_time(checkins[id].subscription_id) > 0
    /\ checkins[id].free_minutes_used = total_free_time(checkins[id].subscription_id)
    /\ checkins[id].extra_minutes > 0

\* C27: for every overage m >= 0 and per-minute rate r >= 0 the overage charge
\* equals m * r; it is 0 whenever the overage minutes are <= 0 regardless of
\* r, and it is never negative.
C27_OverageCharge ==
  \A id \in Ids :
    LET rec == checkins[id]
        m == rec.extra_minutes
        r == per_minute_rate(rec.subscription_id)
    IN /\ (m >= 0 /\ r >= 0) => rec.extra_charges = m * r
       /\ m <= 0 => rec.extra_charges = 0
       /\ rec.extra_charges >= 0

\* C27 witness: several minutes of overage charged at a positive rate.
C27_Witness ==
  \E id \in Ids :
    /\ checkins[id].checkout_time # Unset
    /\ checkins[id].extra_minutes > 1
    /\ per_minute_rate(checkins[id].subscription_id) > 0
    /\ checkins[id].extra_charges > 0

\* C28: when an entitlement has several packages, the allowance is (maximum
\* daily_free_minutes over the packages) + (maximum margin_minutes over the
\* packages), the two maxima taken independently, and the per-minute rate is
\* the maximum extra_time_charge_per_minute over the packages.
C28_MultiPackageMaxima ==
  \A id \in Ids :
    LET rec == checkins[id]
        P == SubPackages(rec.subscription_id)
    IN (rec.checkout_time # Unset /\ rec.duration_minutes > 0) =>
         \E pd \in P, pm \in P, pr \in P :
           /\ \A q \in P :
                /\ Package[q].daily_free_minutes <= Package[pd].daily_free_minutes
                /\ Package[q].margin_minutes <= Package[pm].margin_minutes
                /\ Package[q].extra_time_charge_per_minute
                     <= Package[pr].extra_time_charge_per_minute
           /\ rec.free_minutes_used
                = Min2(rec.duration_minutes,
                       Package[pd].daily_free_minutes + Package[pm].margin_minutes)
           /\ rec.extra_minutes
                = Max2(0, rec.duration_minutes
                            - (Package[pd].daily_free_minutes + Package[pm].margin_minutes))
           /\ rec.extra_charges
                = rec.extra_minutes * Package[pr].extra_time_charge_per_minute

\* C28 witness: an overlong stay on an entitlement of several packages whose
\* largest daily_free_minutes and largest margin_minutes are in different
\* packages.
C28_Witness ==
  \E id \in Ids :
    LET rec == checkins[id]
        P == SubPackages(rec.subscription_id)
    IN /\ Cardinality(P) > 1
       /\ \A p \in P : \E q \in P :
            \/ Package[q].daily_free_minutes > Package[p].daily_free_minutes
            \/ Package[q].margin_minutes > Package[p].margin_minutes
       /\ rec.checkout_time # Unset
       /\ rec.extra_minutes > 0
       /\ rec.extra_charges > 0

\* the sum of number_of_visits over a set of packages, counted visit by visit
VisitsOf(P) ==
  Cardinality({pk \in P \X (1..MaxPackageVisits) :
                 pk[2] <= Package[pk[1]].number_of_visits})

\* C29: in every reachable state of every subscription, remaining_visits =
\* max(0, total_visits_allowed - visits_used), where total_visits_allowed is
\* the sum of number_of_visits of its packages; remaining_visits is never
\* negative.
C29_RemainingVisits ==
  \A s \in SubIds :
    /\ total_visits_allowed(s) = VisitsOf(SubPackages(s))
    /\ remaining_visits(s) = Max2(0, VisitsOf(SubPackages(s)) - subs[s].visits_used)
    /\ remaining_visits(s) >= 0

\* C29 witness: a subscription that was used more often than it allows.
C29_Witness ==
  \E s \in SubIds :
    /\ subs[s].visits_used > total_visits_allowed(s)
    /\ remaining_visits(s) = 0

\* a subscription the sweep has nothing to do on
InTargetState(sub) ==
  /\ ~(sub.state = "paid" /\ sub.start_date <= today)
  /\ ~(sub.state = "active" /\ sub.end_date < today)

\* C30: the periodic subscription sweep is idempotent: running
\* _cron_update_subscription_status twice in a row on the same date leaves
\* every subscription as running it once does, and a subscription already in
\* its target state is not changed.
C30_CronIdempotent ==
  [][CronUpdateSubscriptionStatus =>
       \A s \in SubIds :
         /\ (Expired(Activated(subs[s])))' = subs'[s]
         /\ (InTargetState(subs[s]))'
         /\ InTargetState(subs[s]) => subs'[s] = subs[s]]_vars

\* C30 witness: the sweep has expired one subscription and activated another.
C30_Witness ==
  /\ \E s \in SubIds : subs[s].state = "expired"
  /\ \E s \in SubIds : subs[s].state = "active"

OtherOccupants(r, id) ==
  {i \in Ids \ {id} : checkins[i].room_id = r /\ checkins[i].state = "checked_in"}

\* C32: assigning or changing the room of an existing session in pending_otp
\* or checked_in is rejected with RoomFull when the number of checked_in
\* sessions currently in the target room, not counting this session, is >=
\* capacity (and is carried out otherwise); the count is taken from the
\* current sessions at the time of the change.
C32_RoomChangeChecksCapacity ==
  [][\A id \in Ids, r \in Rooms :
       ( /\ checkins[id].state \in {"pending_otp", "checked_in"}
         /\ checkins[id].room_id # r ) =>
         /\ Cardinality(OtherOccupants(r, id)) >= RoomCapacity[r] =>
              /\ write_room_error(id, r) = "RoomFull"
              /\ WriteRoom(id, r) => checkins' = checkins
         /\ Cardinality(OtherOccupants(r, id)) < RoomCapacity[r] =>
              /\ write_room_error(id, r) = "ok"
              /\ WriteRoom(id, r) =>
                   checkins' = [checkins EXCEPT ![id].room_id = r]]_vars

\* C32 witness: a checked_in session without a room while another session
\* fills the room it would be moved to.
C32_Witness ==
  \E id \in Ids, r \in Rooms :
    /\ checkins[id].state = "checked_in"
    /\ checkins[id].room_id # r
    /\ Cardinality(OtherOccupants(r, id)) >= RoomCapacity[r]
    /\ write_room_error(id, r) = "RoomFull"

\* a string of exactly six ASCII decimal digits
SixDigits(code) ==
  /\ Len(code) = 6
  /\ \A i \in 1..6 : code[i] \in 0..9

\* C33: a successful request check-in creates exactly one session in
\* pending_otp linked to the selected entitlement, holding a check-in code and
\* its issue time; every OTP code ever stored (check-in or checkout) consists
\* of exactly six ASCII decimal digits.
C33_RequestCreatesPendingSession ==
  [][/\ \A c \in Children, r \in Rooms \cup {NoRoom}, otp \in SessionCodes :
          ( /\ create_checkin_request_error(c, r) = "ok"
            /\ CreateCheckinRequest(c, r, otp) ) =>
            /\ Len(checkins') = Len(checkins) + 1
            /\ SubSeq(checkins', 1, Len(checkins)) = checkins
            /\ LET new == checkins'[Len(checkins')] IN
                 /\ new.state = "pending_otp"
                 /\ new.child_id = c
                 /\ new.room_id = r
                 /\ new.subscription_id \in active_subscription(c)
                 /\ new.subscription_id \in validated_subscriptions(c)
                 /\ new.otp_code = otp
                 /\ new.otp_sent_time = now
                 /\ ~new.otp_verified
     /\ \A i \in 1..Len(checkins') :
          /\ checkins'[i].otp_code # NoCode => SixDigits(checkins'[i].otp_code)
          /\ checkins'[i].checkout_otp_code # NoCode
               => SixDigits(checkins'[i].checkout_otp_code)]_vars

\* C33 witness: two requests have succeeded, each with its code, and a
\* checkout code is stored as well.
C33_Witness ==
  /\ Len(checkins) = MaxCheckins
  /\ \A id \in Ids : checkins[id].otp_code # NoCode /\ checkins[id].otp_sent_time # Unset
  /\ \E id \in Ids : checkins[id].state = "pending_otp"
  /\ \E id \in Ids : checkins[id].checkout_otp_code # NoCode

CheckinOtpFields(rec) == <<rec.otp_code, rec.otp_sent_time, rec.otp_verified>>

CheckoutOtpFields(rec) ==
  <<rec.checkout_otp_code, rec.checkout_otp_sent_time, rec.checkout_otp_verified>>

\* C34: the check-in OTP and the checkout OTP of a session are independent:
\* issuing, resending or verifying one never changes the code, issue time or
\* verified flag of the other, and a code issued for one purpose is never
\* compared when verifying the other.
C34_OtpsIndependent ==
  [][\A id \in Ids, otp \in Codes :
       LET rec == checkins[id] IN
       /\ (ResendOtp(id, otp) \/ VerifyOtp(id, otp)) =>
            CheckoutOtpFields(checkins'[id]) = CheckoutOtpFields(rec)
       /\ (ResendCheckoutOtp(id, otp) \/ VerifyCheckoutOtp(id, otp)) =>
            CheckinOtpFields(checkins'[id]) = CheckinOtpFields(rec)
       /\ otp # rec.otp_code => verify_otp_error(rec, otp) # "ok"
       /\ otp # rec.checkout_otp_code => verify_checkout_otp_error(rec, otp) # "ok"
       /\ \A c \in Codes \cup {NoCode} :
            /\ verify_otp_error([rec EXCEPT !.checkout_otp_code = c], otp)
                 = verify_otp_error(rec, otp)
            /\ verify_checkout_otp_error([rec EXCEPT !.otp_code = c], otp)
                 = verify_checkout_otp_error(rec, otp)]_vars

\* C34 witness: a session checked out with one code while its check-in code,
\* a different one, is still within its validity window.
C34_Witness ==
  \E id \in Ids :
    /\ checkins[id].otp_code # NoCode
    /\ checkins[id].checkout_otp_code # NoCode
    /\ checkins[id].otp_code # checkins[id].checkout_otp_code
    /\ checkins[id].otp_verified /\ checkins[id].checkout_otp_verified
    /\ now <= checkins[id].otp_sent_time + OtpValidSeconds

\* C35: entitlement selection is deterministic: when several of a child's
\* subscriptions qualify, the one chosen is the first in a stable order (most
\* recent start_date first), so the same stored state always yields the same
\* selected subscription. Stated as claimed; violated when two qualifying
\* subscriptions have the same start_date.
C35_SelectionDeterministic ==
  \A c \in Children :
    validate_active_subscription(c).valid =>
      /\ \A s \in validated_subscriptions(c) :
           \A u \in active_subscription(c) : subs[u].start_date <= subs[s].start_date
      /\ Cardinality(validated_subscriptions(c)) = 1

\* C36: after the checkout wizard's action_send_checkout_otp succeeds on a
\* checked_in session, the session holds a checkout OTP code and issue time,
\* so that entering that code in the wizard within 5 minutes completes the
\* checkout. Stated as claimed; violated because the wizard only calls
\* action_checkout, which issues no code.
C36_CheckoutWizardSendsOtp ==
  \A id \in Ids :
    checkins[id].state = "checked_in" =>
      ENABLED ( /\ CheckoutWizardSendCheckoutOtp(id)
                /\ checkins'[id].checkout_otp_code # NoCode
                /\ checkins'[id].checkout_otp_sent_time = now
                /\ (verify_checkout_otp_error(checkins[id],
                                              checkins[id].checkout_otp_code) = "ok")' )

\* the subscriptions of child c in state active with visits remaining
ActiveWithVisits(c) ==
  {s \in SubIds : /\ subs[s].child_id = c
                  /\ subs[s].state = "active"
                  /\ total_visits_allowed(s) - subs[s].visits_used > 0}

\* C37: reception quick check-in (_create_checkin) creates a session directly
\* in checked_in, without OTP, only when the child has a subscription in state
\* active with remaining_visits > 0 and no session already in checked_in; on
\* success it increments that subscription's visits_used by exactly 1, and
\* otherwise it returns False, creating no session and changing no counter.
C37_ReceptionQuickCheckin ==
  [][\A c \in Children :
       /\ reception_checkin_ok(c) <=>
            /\ ActiveWithVisits(c) # {}
            /\ \A i \in Ids : ~(checkins[i].child_id = c /\ checkins[i].state = "checked_in")
       /\ (reception_checkin_ok(c) /\ ReceptionCreateCheckin(c)) =>
            /\ Len(checkins') = Len(checkins) + 1
            /\ SubSeq(checkins', 1, Len(checkins)) = checkins
            /\ LET new == checkins'[Len(checkins')] IN
                 /\ new.child_id = c
                 /\ new.state = "checked_in"
                 /\ new.checkin_time = now
                 /\ new.otp_code = NoCode /\ ~new.otp_verified
                 /\ new.subscription_id \in ActiveWithVisits(c)
                 /\ subs' = [subs EXCEPT ![new.subscription_id].visits_used = @ + 1]
       /\ (~reception_checkin_ok(c) /\ ReceptionCreateCheckin(c)) =>
            /\ checkins' = checkins
            /\ subs' = subs]_vars

\* C37 witness: a child checked in by reception, without OTP, whose next quick
\* check-in is refused.
C37_Witness ==
  \E id \in Ids :
    /\ checkins[id].state = "checked_in"
    /\ checkins[id].otp_code = NoCode
    /\ ~checkins[id].otp_verified
    /\ subs[checkins[id].subscription_id].visits_used = 1
    /\ ~reception_checkin_ok(checkins[id].child_id)

\* C38: in every reachable state visits_used of a subscription never exceeds
\* its total_visits_allowed: no check-in completes (by OTP verification or by
\* reception quick check-in) on a subscription that has no remaining visits
\* at that moment. Stated as claimed; violated by a second verification of
\* the same check-in OTP.
C38_VisitsWithinAllowance ==
  \A s \in SubIds : subs[s].visits_used <= total_visits_allowed(s)

\* C39: the periodic sweep never revokes check-in eligibility of a still-valid
\* subscription: if a child can pass request check-in before the sweep runs
\* (subscription paid, within its validity window, visits remaining), the
\* child can still pass it after the sweep has promoted that subscription
\* from paid to active. Stated as claimed; violated because is_active is
\* False for every state but paid.
C39_SweepKeepsEligibility ==
  [][CronUpdateSubscriptionStatus =>
       \A c \in Children :
         ( /\ validate_active_subscription(c).valid
           /\ \E s \in active_subscription(c) :
                /\ subs[s].state = "paid"
                /\ subs[s].start_date <= today /\ today <= subs[s].end_date
                /\ subs'[s].state = "active" ) =>
           (validate_active_subscription(c).valid)']_vars

\* C40: a subscription that has been cancelled or expired never again becomes
\* usable for check-in: no sequence of action_confirm, payment-status updates
\* and sweeps brings it back to state paid or active. Stated as claimed, over
\* subscriptions that all have been cancelled or have expired; violated
\* because action_confirm has no state guard.
C40_ClosedStaysClosed ==
  \A s \in SubIds : subs[s].state \notin {"paid", "active"}

====
